---- MODULE Spec2Model ----
(***************************************************************************)
(* A model of the Sellsy API client (src/SellsyAPI/client.py) and of the   *)
(* script that drives it (src/main.py).                                    *)
(*                                                                         *)
(* Python's None is the empty sequence <<>> and a present value x is <<x>>.*)
(* Time is a natural number of seconds.  Every HTTP exchange takes Latency *)
(* seconds; sleep(d) takes d seconds.                                      *)
(***************************************************************************)
EXTENDS Integers, Sequences, FiniteSets, TLC

VARIABLES
    now,            \* the wall clock, time()
    access_token,   \* self.access_token: the number of the token the server issued
    token_expiry,   \* self.token_expiry
    res,            \* the last JSON body of the auth endpoint (client.py:68)
    exchanges,      \* how many credential-exchange POSTs were sent so far
    pc,             \* where the running method (_simple_request) is
    error,          \* the exception a method raised, <<>> when none
    result,         \* what the method returned, <<>> before it returns
    endpoint,       \* the endpoint argument of the running method
    params,         \* the params dict of the running method
    headers,        \* the headers dict built once per call (client.py:91, 143)
    retries,        \* the local retries counter
    sleeps,         \* the arguments of the sleep() calls of the running call, in order
    reqs,           \* the resource requests the running call sent, in order
    calls,          \* how many method calls were started (bounds the exploration)
    custom_fields,  \* self.custom_fields: <<>> when the attribute was never set
    custom_field_ids, \* get(): the local list of custom-field ids
    pagination,     \* get(): the pagination argument (the resume cursor)
    response,       \* get(): the JSON body of the current primary page
    additional_data,\* get(): the JSON body of the last backfill request
    all_data,       \* get(): the accumulated rows (the DataFrame)
    total_results,  \* get(): the loop's target row count
    pagination_info,\* get(): <<>> while the local name is unbound
    i,              \* get(): the start index of the embed batch being backfilled
    streak,         \* history: failed page attempts of the loop in a row
    total,          \* server: records in the collection
    order,          \* server: record order of backfill responses
    anomaly,        \* server: the record a backfill response reports differently
    faults,         \* environment: resource requests that failed so far in get()
    files,          \* main.py: the names of the files of the working directory
    mpc,            \* main.py: where the script is
    runs            \* main.py: how many times the script was started

tokenVars == <<access_token, token_expiry, res, exchanges>>
getVars == <<custom_field_ids, pagination, response, additional_data, all_data,
             total_results, pagination_info, i, streak>>
serverVars == <<total, order, anomaly>>
mainVars == <<files, mpc, runs>>
vars == <<now, access_token, token_expiry, res, exchanges, pc, error, result,
          endpoint, params, headers, retries, sleeps, reqs, calls, custom_fields,
          custom_field_ids, pagination, response, additional_data, all_data,
          total_results, pagination_info, i, streak, total, order, anomaly, faults,
          files, mpc, runs>>

-----------------------------------------------------------------------------
(* Bounds of the exploration. *)

Latency == 1        \* seconds one HTTP exchange takes
MaxCalls == 2       \* method calls started on one client
MaxTtl == 1         \* the short expires_in values the auth server reports: 0..MaxTtl
PageSize == 2       \* records the server puts on one page (at most 100 in production)
MaxFaults == 5      \* resource requests that may fail while one client runs get()
MaxCursor == 3      \* the largest resume cursor a caller passes to get()
MaxRuns == 2        \* runs of the script main.py in one working directory
\* client.py:111 asks for pages of 100 custom-field definitions; the model asks
\* for pages of 2, so that a sweep of a few definitions takes several pages
CatalogLimit == 2
\* client.py:136 sets 300; the model batches by 2, so that a catalog of a few ids
\* already needs backfill requests
CUSTOM_FIELDS_PER_REQUEST == 2

(* Program constants. *)

MAX_RETRIES == 5    \* client.py:84, client.py:135
TIMEOUT == 10       \* client.py:66, client.py:96
TOTAL_DIVISOR == 4  \* client.py:163

\* 86400 is an expires_in that outlasts every run of the model
TTLs == (0..MaxTtl) \cup {86400}

None == <<>>
Some(x) == <<x>>

-----------------------------------------------------------------------------
(* TokenManager: _get_access_token, _request_new_token, _check_access_token *)

\* A refresh only once the expiry has passed.
NeedsRefreshLate(t, expiry) == t > expiry

\* client.py:47: the held token is refreshed when time() >= self.token_expiry
NeedsRefresh(t, expiry) == t >= expiry

\* An expiry that forgets the lifetime the server granted.
ExpiryTimeNoTtl(t, expires_in) == t

\* client.py:69: expiry_time = time() + res["expires_in"]
ExpiryTime(t, expires_in) == t + expires_in

\* client.py:61-70: the POST succeeds; the token and its expiry are returned and
\* stored by the caller (client.py:48).  One POST, no retry.
RequestNewTokenOk ==
    \E ttl \in TTLs :
        /\ now' = now + Latency
        /\ exchanges' = exchanges + 1
        /\ res' = [access_token |-> exchanges + 1, expires_in |-> ttl]
        /\ access_token' = res'.access_token
        /\ token_expiry' = ExpiryTime(now', res'.expires_in)

\* A failed POST that is sent a second time.
RequestNewTokenRetried ==
    /\ now' = now + 2 * Latency
    /\ exchanges' = exchanges + 2
    /\ UNCHANGED <<access_token, token_expiry, res>>

\* client.py:71-72: the POST fails (transport failure, timeout or non-2xx status):
\* RuntimeError is raised and nothing is stored.
RequestNewTokenFails ==
    /\ now' = now + Latency
    /\ exchanges' = exchanges + 1
    /\ UNCHANGED <<access_token, token_expiry, res>>

\* client.py:43-49 under the decorator client.py:74-79: the method body runs
\* (pc goes to next) only when _get_access_token returned.
GetAccessToken(next) ==
    IF NeedsRefresh(now, token_expiry)
    THEN \/ /\ RequestNewTokenOk
            /\ pc' = next
            /\ error' = None
         \/ /\ RequestNewTokenFails
            /\ pc' = "raised"
            /\ error' = Some([type |-> "RuntimeError", names |-> {}])
    ELSE /\ UNCHANGED <<now, access_token, token_expiry, res, exchanges>>
         /\ pc' = next
         /\ error' = None

-----------------------------------------------------------------------------
(* HttpRetrier: _simple_request, client.py:81-103 *)

\* The endpoints _simple_request is called with.
SrEndpoints == {"custom-fields"}

\* A linear backoff.
BackoffLinear(n) == 2 * n

\* client.py:101: sleep(2 ** retries), retries already incremented
Backoff(n) == 2 ^ n

\* One resource request as it leaves the client.
Request(kind, ep, hd, pr, timeout, t, ok) ==
    [kind |-> kind, endpoint |-> ep, token |-> hd.token, exp |-> hd.exp,
     offset |-> pr.offset, embed |-> pr.embed, limit |-> pr.limit,
     order |-> pr.order, direction |-> pr.direction,
     timeout |-> timeout, at |-> t, ok |-> ok]

\* client.py:85-88: the defaults of _simple_request's params
SrParams(off) ==
    [limit |-> 100, order |-> "id", direction |-> "asc", offset |-> off, embed |-> <<>>]

\* The caller starts _simple_request("get", ep, params): the decorator runs first.
Call_simple_request(ep, off) ==
    /\ pc = "idle"
    /\ calls < MaxCalls
    /\ calls' = calls + 1
    /\ pc' = "sr_check"
    /\ endpoint' = ep
    /\ params' = SrParams(off)
    /\ error' = None
    /\ result' = None
    /\ retries' = 0
    /\ sleeps' = <<>>
    /\ reqs' = <<>>
    /\ UNCHANGED <<now, headers, custom_fields, faults>>
    /\ UNCHANGED tokenVars
    /\ UNCHANGED getVars
    /\ UNCHANGED serverVars
    /\ UNCHANGED mainVars

\* client.py:77: self._get_access_token(); client.py:91-93: headers, retries = 0
SrCheckAccessToken ==
    /\ pc = "sr_check"
    /\ GetAccessToken("sr_attempt")
    /\ headers' = IF pc' = "sr_attempt"
                  THEN [token |-> access_token', exp |-> token_expiry']
                  ELSE headers
    /\ UNCHANGED <<result, endpoint, params, retries, sleeps, reqs, calls,
                   custom_fields, faults>>
    /\ UNCHANGED getVars
    /\ UNCHANGED serverVars
    /\ UNCHANGED mainVars

\* client.py:94-98: one attempt that succeeds: the JSON body is returned.
SrAttemptOk ==
    /\ pc = "sr_attempt"
    /\ retries < MAX_RETRIES
    /\ reqs' = Append(reqs, Request("simple", endpoint, headers, params,
                                    Some(TIMEOUT), now, TRUE))
    /\ now' = now + Latency
    /\ result' = Some([endpoint |-> endpoint, offset |-> params.offset])
    /\ pc' = "returned"
    /\ UNCHANGED <<error, endpoint, params, headers, retries, sleeps, calls,
                   custom_fields, faults>>
    /\ UNCHANGED tokenVars
    /\ UNCHANGED getVars
    /\ UNCHANGED serverVars
    /\ UNCHANGED mainVars

\* The names bound where client.py:103 runs: the parameters and locals of
\* _simple_request (client.py:82-99, the handler binds err) and the module's
\* globals (client.py:1-9).
BoundNames ==
    {"self", "method", "endpoint", "params", "data", "MAX_RETRIES", "headers", "url",
     "retries", "err", "time", "sleep", "wraps", "post", "request",
     "RequestException", "HTTPError", "tqdm", "flatten_dict", "pd", "json", "SellsyAPI"}

\* client.py:103: the names the f-string "All retries failed for {endpoint}: {e}" reads
MessageNames == {"endpoint", "e"}

\* client.py:103: raise Exception(f"...") from err.  The message is evaluated
\* first; a name that is not bound raises NameError instead.
ExhaustedError(ep) ==
    IF MessageNames \subseteq BoundNames
    THEN [type |-> "Exception", names |-> {ep}]
    ELSE [type |-> "NameError", names |-> MessageNames \ BoundNames]

\* client.py:99-103: one attempt that fails with a RequestException (transport
\* failure, timeout, non-2xx status): count it, sleep, and after the fifth raise.
SrAttemptFails ==
    /\ pc = "sr_attempt"
    /\ retries < MAX_RETRIES
    /\ reqs' = Append(reqs, Request("simple", endpoint, headers, params,
                                    Some(TIMEOUT), now, FALSE))
    /\ retries' = retries + 1
    /\ sleeps' = Append(sleeps, Backoff(retries'))
    /\ now' = now + Latency + Backoff(retries')
    /\ IF retries' = MAX_RETRIES
       THEN /\ pc' = "raised"
            /\ error' = Some(ExhaustedError(endpoint))
       ELSE /\ pc' = "sr_attempt"
            /\ error' = error
    /\ UNCHANGED <<result, endpoint, params, headers, calls, custom_fields, faults>>
    /\ UNCHANGED tokenVars
    /\ UNCHANGED getVars
    /\ UNCHANGED serverVars
    /\ UNCHANGED mainVars

\* The call is over: its frame is gone, the client keeps its token and catalog.
Finish ==
    /\ pc \in {"returned", "raised"}
    /\ pc' = "idle"
    /\ error' = None
    /\ result' = None
    /\ retries' = 0
    /\ sleeps' = <<>>
    /\ reqs' = <<>>
    /\ custom_field_ids' = <<>>
    /\ pagination' = None
    /\ response' = None
    /\ additional_data' = None
    /\ all_data' = <<>>
    /\ total_results' = 0
    /\ pagination_info' = None
    /\ i' = 0
    /\ streak' = 0
    /\ UNCHANGED <<now, endpoint, params, headers, calls, custom_fields, faults>>
    /\ UNCHANGED tokenVars
    /\ UNCHANGED serverVars
    /\ UNCHANGED mainVars

-----------------------------------------------------------------------------
(* The resource server: a finite collection of records 1..total, served in *)
(* pages of PageSize records.  The cursor of page c is c; the offset a page *)
(* reports is the cursor of the next page, null on the last page.           *)

Min(a, b) == IF a < b THEN a ELSE b

NumPages(T) == IF T = 0 THEN 1 ELSE (T + PageSize - 1) \div PageSize

\* The page a request with this offset parameter addresses.
CursorPage(off) == IF off = None THEN 1 ELSE off[1]

\* The ids of the records of page c, in the order of the primary response.
PageRecs(T, c) ==
    LET first == (c - 1) * PageSize
        n == IF T > first THEN Min(PageSize, T - first) ELSE 0
    IN  [j \in 1..n |-> first + j]

NextCursor(T, c) == IF c < NumPages(T) THEN Some(c + 1) ELSE None

Created(r) == 1000 + r

\* The value options of a custom field, and the value a record holds for it.
ItemsOf(f) == << [id |-> 1, label |-> "A"], [id |-> 2, label |-> "B"] >>
Entry(r, f) == [name |-> f, value |-> Some(r), items |-> ItemsOf(f)]
Entries(r, embed) == [j \in 1..Len(embed) |-> Entry(r, embed[j])]

Rec(r, embed) ==
    [id |-> r, created |-> Created(r), custom_fields |-> Some(Entries(r, embed))]

\* A backfill response may report one record differently from the primary page:
\* with null custom fields, or with another creation time (the record was
\* replaced between the two requests).
BackfillRec(r, embed, an) ==
    IF an.rec # r THEN Rec(r, embed)
    ELSE IF an.kind = "null"
         THEN [id |-> r, created |-> Created(r), custom_fields |-> None]
         ELSE IF an.kind = "stale"
              THEN [id |-> r, created |-> Created(r) + 1,
                    custom_fields |-> Some(Entries(r, embed))]
              ELSE Rec(r, embed)

Reverse(s) == [j \in 1..Len(s) |-> s[Len(s) + 1 - j]]

Pagination(T, c) ==
    [offset |-> NextCursor(T, c), total |-> T, count |-> Len(PageRecs(T, c))]

PrimaryResponse(T, off, embed) ==
    LET c == CursorPage(off)
        recs == PageRecs(T, c)
    IN  [data |-> [j \in 1..Len(recs) |-> Rec(recs[j], embed)],
         pagination |-> Pagination(T, c)]

BackfillResponse(T, off, embed, ord, an) ==
    LET c == CursorPage(off)
        recs == IF ord = "reversed" THEN Reverse(PageRecs(T, c)) ELSE PageRecs(T, c)
    IN  [data |-> [j \in 1..Len(recs) |-> BackfillRec(recs[j], embed, an)],
         pagination |-> Pagination(T, c)]

-----------------------------------------------------------------------------
(* PaginatedFetcher: get, client.py:131-246 *)

\* client.py:149: the entity types whose ids are appended to those of 'client'
OtherTypes == <<"prospect", "contact", "opportunity", "document", "supplier", "purchase">>

\* dict.get(key, []) on self.custom_fields
CatalogGet(cat, key) == IF key \in DOMAIN cat THEN cat[key] ELSE <<>>

RECURSIVE ExtendAll(_, _, _)
\* client.py:149-150: ids.extend(self.custom_fields.get(item, [])) for the items from n on
ExtendAll(ids, cat, n) ==
    IF n > Len(OtherTypes) THEN ids
    ELSE ExtendAll(ids \o CatalogGet(cat, OtherTypes[n]), cat, n + 1)

\* client.py:148-150: the local list custom_field_ids
CustomFieldIds(cat) == ExtendAll(CatalogGet(cat, "client"), cat, 1)

\* client.py:148-150: the list that get() extends is the very list stored under
\* 'client' when that key exists, so the catalog changes with it.
CatalogAfter(cat) ==
    IF "client" \in DOMAIN cat
    THEN [cat EXCEPT !["client"] = CustomFieldIds(cat)]
    ELSE cat

\* client.py:158, 168: custom_field_ids[n : n + CUSTOM_FIELDS_PER_REQUEST]
Batch(ids, n) == SubSeq(ids, n + 1, Min(n + CUSTOM_FIELDS_PER_REQUEST, Len(ids)))

\* A get() that drops the resume cursor.
GetParamsNoCursor(pag, ids) ==
    [limit |-> 100, order |-> "created_at", direction |-> "desc",
     offset |-> None, embed |-> Batch(ids, 0)]

\* client.py:139-141, 154-155, 158: the params of the first request
GetParams(pag, ids) ==
    [limit |-> 100, order |-> "created_at", direction |-> "desc",
     offset |-> pag, embed |-> Batch(ids, 0)]

\* client.py:163: int(total / 4)
TotalResults(t) == t \div TOTAL_DIVISOR

\* A match on the id alone.
MatchesById(original, additional) == original.id = additional.id

\* client.py:179: a primary record matches a backfill record
Matches(original, additional) ==
    original.id = additional.id /\ original.created = additional.created

RECURSIVE FirstMatch(_, _, _)
\* client.py:178-181: the index of the first primary record from k on that
\* matches, 0 when none does
FirstMatch(data, item, k) ==
    IF k > Len(data) THEN 0
    ELSE IF Matches(data[k], item) THEN k
    ELSE FirstMatch(data, item, k + 1)

\* A merge by position: the n-th backfill record goes to the n-th primary record.
MergeItemByIndex(data, additional, n) ==
    IF additional[n].custom_fields = None \/ n > Len(data) THEN data
    ELSE [data EXCEPT ![n].custom_fields =
              Some(@[1] \o additional[n].custom_fields[1])]

\* client.py:177-181: merge the n-th item of a backfill response
MergeItem(data, additional, n) ==
    LET item == additional[n]
        k == FirstMatch(data, item, 1)
    IN  IF item.custom_fields = None \/ k = 0 THEN data
        ELSE [data EXCEPT ![k].custom_fields =
                  Some(@[1] \o item.custom_fields[1])]

RECURSIVE MergeFrom(_, _, _)
\* client.py:176-181: the loop over the items of a backfill response
MergeFrom(data, additional, n) ==
    IF n > Len(additional) THEN data
    ELSE MergeFrom(MergeItem(data, additional, n), additional, n + 1)

Merge(data, additional) == MergeFrom(data, additional, 1)

RECURSIVE ItemLabel(_, _, _)
\* client.py:187-190: the label of the first option whose id is the value, <<>> when none
ItemLabel(items, value, k) ==
    IF k > Len(items) THEN None
    ELSE IF items[k].id = value THEN Some(items[k].label)
    ELSE ItemLabel(items, value, k + 1)

RECURSIVE Columns(_, _, _)
\* client.py:185-190: the columns the custom-field entries from k on add to a row
Columns(cols, cfs, k) ==
    IF k > Len(cfs) THEN cols
    ELSE LET cf == cfs[k]
             label == IF cf.value = None THEN None
                      ELSE ItemLabel(cf.items, cf.value[1], 1)
         IN  Columns(IF label = None THEN cols
                     ELSE [n \in DOMAIN cols \cup {cf.name} |->
                              IF n = cf.name THEN label[1] ELSE cols[n]],
                     cfs, k + 1)

\* client.py:183-191: one flattened row; the embed key is deleted
Row(rec) ==
    [id |-> rec.id, created |-> rec.created,
     columns |-> Columns(<<>>, rec.custom_fields[1], 1)]

\* client.py:183, 224: raw_data
Rows(data) == [j \in 1..Len(data) |-> Row(data[j])]

\* The caller starts get(endpoint, params={}, pagination=pag).
Call_get(ep, pag) ==
    /\ pc = "idle"
    /\ calls < MaxCalls
    /\ calls > 0 => faults = 0     \* a second call is explored after a fault-free one
    /\ calls' = calls + 1
    /\ pc' = "get_check"
    /\ endpoint' = ep
    /\ pagination' = pag
    /\ error' = None
    /\ result' = None
    /\ retries' = 0
    /\ sleeps' = <<>>
    /\ reqs' = <<>>
    /\ custom_field_ids' = <<>>
    /\ response' = None
    /\ additional_data' = None
    /\ all_data' = <<>>
    /\ total_results' = 0
    /\ pagination_info' = None
    /\ i' = 0
    /\ streak' = 0
    /\ UNCHANGED <<now, params, headers, custom_fields, faults>>
    /\ UNCHANGED tokenVars
    /\ UNCHANGED serverVars

\* client.py:77: the decorator's self._get_access_token()
GetCheckAccessToken ==
    /\ pc = "get_check"
    /\ GetAccessToken("get_setup")
    /\ UNCHANGED <<result, endpoint, params, headers, retries, sleeps, reqs, calls,
                   custom_fields, faults>>
    /\ UNCHANGED getVars
    /\ UNCHANGED serverVars
    /\ UNCHANGED mainVars

\* client.py:138-158: the params, the headers and the list of custom-field ids.
\* Without the attribute self.custom_fields (with_custom_fields = False,
\* client.py:39-41) line 148 raises AttributeError.
GetSetup ==
    /\ pc = "get_setup"
    /\ IF custom_fields = None
       THEN /\ pc' = "raised"
            /\ error' = Some([type |-> "AttributeError", names |-> {}])
            /\ UNCHANGED <<headers, params, custom_fields, custom_field_ids>>
       ELSE /\ pc' = "get_first"
            /\ error' = None
            /\ headers' = [token |-> access_token, exp |-> token_expiry]
            /\ custom_field_ids' = CustomFieldIds(custom_fields[1])
            /\ custom_fields' = Some(CatalogAfter(custom_fields[1]))
            /\ params' = GetParams(pagination, custom_field_ids')
    /\ UNCHANGED <<now, result, endpoint, retries, sleeps, reqs, calls, faults,
                   pagination, response, additional_data, all_data, total_results,
                   pagination_info, i, streak>>
    /\ UNCHANGED tokenVars
    /\ UNCHANGED serverVars
    /\ UNCHANGED mainVars

\* After a primary request: the backfill loop when batches remain (client.py:167, 204)
AfterPrimary(ids, backfill, acc) ==
    IF CUSTOM_FIELDS_PER_REQUEST < Len(ids) THEN backfill ELSE acc

\* After a backfill request with batch n: the next batch or the accumulation
AfterBackfill(ids, n, backfill, acc) ==
    IF n + CUSTOM_FIELDS_PER_REQUEST < Len(ids) THEN backfill ELSE acc

\* client.py:222, 245-246: return all_data, pagination_info['offset'].  The local
\* name pagination_info is bound at line 238 only, inside the loop: where it is
\* unbound the return statement raises UnboundLocalError.
Return(rows, pinfo) ==
    IF pinfo = None
    THEN /\ pc' = "raised"
         /\ error' = Some([type |-> "UnboundLocalError", names |-> {}])
         /\ result' = None
    ELSE /\ pc' = "returned"
         /\ error' = None
         /\ result' = Some([rows |-> rows, cursor |-> pinfo[1].offset])

\* client.py:159-163: the primary request of the first page succeeds.
GetFirstOk ==
    /\ pc = "get_first"
    /\ reqs' = Append(reqs, Request("first", endpoint, headers, params, None, now, TRUE))
    /\ now' = now + Latency
    /\ response' = Some(PrimaryResponse(total, params.offset, params.embed))
    /\ total_results' = TotalResults(response'[1].pagination.total)
    /\ i' = CUSTOM_FIELDS_PER_REQUEST
    /\ pc' = AfterPrimary(custom_field_ids, "get_first_backfill", "get_first_acc")
    /\ UNCHANGED <<error, result, endpoint, params, headers, retries, sleeps, calls,
                   custom_fields, faults, custom_field_ids, pagination,
                   additional_data, all_data, pagination_info, streak>>
    /\ UNCHANGED tokenVars
    /\ UNCHANGED serverVars
    /\ UNCHANGED mainVars

\* client.py:159-160: the primary request of the first page fails; nothing
\* catches the exception.
GetFirstFails ==
    /\ pc = "get_first"
    /\ faults < MaxFaults
    /\ faults' = faults + 1
    /\ reqs' = Append(reqs, Request("first", endpoint, headers, params, None, now, FALSE))
    /\ now' = now + Latency
    /\ pc' = "raised"
    /\ error' = Some([type |-> "RequestException", names |-> {}])
    /\ UNCHANGED <<result, endpoint, params, headers, retries, sleeps, calls,
                   custom_fields>>
    /\ UNCHANGED getVars
    /\ UNCHANGED tokenVars
    /\ UNCHANGED serverVars
    /\ UNCHANGED mainVars

\* client.py:167-181: one backfill request of the first page succeeds and is merged.
GetFirstBackfillOk ==
    /\ pc = "get_first_backfill"
    /\ params' = [params EXCEPT !.embed = Batch(custom_field_ids, i)]
    /\ reqs' = Append(reqs, Request("first_backfill", endpoint, headers, params',
                                    Some(TIMEOUT), now, TRUE))
    /\ now' = now + Latency
    /\ additional_data' = Some(BackfillResponse(total, params'.offset, params'.embed,
                                                order, anomaly))
    /\ response' = Some([response[1] EXCEPT
                            !.data = Merge(@, additional_data'[1].data)])
    /\ i' = i + CUSTOM_FIELDS_PER_REQUEST
    /\ pc' = AfterBackfill(custom_field_ids, i, "get_first_backfill", "get_first_acc")
    /\ UNCHANGED <<error, result, endpoint, headers, retries, sleeps, calls,
                   custom_fields, faults, custom_field_ids, pagination, all_data,
                   total_results, pagination_info, streak>>
    /\ UNCHANGED tokenVars
    /\ UNCHANGED serverVars
    /\ UNCHANGED mainVars

\* client.py:171-172: a backfill request of the first page fails; nothing catches
\* the exception.
GetFirstBackfillFails ==
    /\ pc = "get_first_backfill"
    /\ faults < MaxFaults
    /\ faults' = faults + 1
    /\ params' = [params EXCEPT !.embed = Batch(custom_field_ids, i)]
    /\ reqs' = Append(reqs, Request("first_backfill", endpoint, headers, params',
                                    Some(TIMEOUT), now, FALSE))
    /\ now' = now + Latency
    /\ pc' = "raised"
    /\ error' = Some([type |-> "RequestException", names |-> {}])
    /\ UNCHANGED <<result, endpoint, headers, retries, sleeps, calls, custom_fields>>
    /\ UNCHANGED getVars
    /\ UNCHANGED tokenVars
    /\ UNCHANGED serverVars
    /\ UNCHANGED mainVars

\* client.py:183-194: the rows of the first page; the offset of the next request.
\* dropna(axis=1, how='all') drops columns that no row fills: a row here lists
\* only the columns it fills.
GetFirstAccumulate ==
    /\ pc = "get_first_acc"
    /\ all_data' = Rows(response[1].data)
    /\ params' = [params EXCEPT !.offset = response[1].pagination.offset]
    /\ pc' = "get_loop"
    /\ UNCHANGED <<now, error, result, endpoint, headers, retries, sleeps, reqs, calls,
                   custom_fields, faults, custom_field_ids, pagination, response,
                   additional_data, total_results, pagination_info, i, streak>>
    /\ UNCHANGED tokenVars
    /\ UNCHANGED serverVars
    /\ UNCHANGED mainVars

\* client.py:198, 245-246: the loop condition fails.
GetLoopExit ==
    /\ pc = "get_loop"
    /\ ~(Len(all_data) < total_results)
    /\ Return(all_data, pagination_info)
    /\ UNCHANGED <<now, endpoint, params, headers, retries, sleeps, reqs, calls,
                   custom_fields, faults>>
    /\ UNCHANGED getVars
    /\ UNCHANGED tokenVars
    /\ UNCHANGED serverVars
    /\ UNCHANGED mainVars

\* client.py:199: retries = 0, at the top of every iteration of the loop
LoopRetries == 0

\* client.py:198-202: a loop iteration whose primary request succeeds.
GetPageOk ==
    /\ pc = "get_loop"
    /\ Len(all_data) < total_results
    /\ retries' = LoopRetries
    /\ params' = [params EXCEPT !.embed = Batch(custom_field_ids, 0)]
    /\ reqs' = Append(reqs, Request("page", endpoint, headers, params', None, now, TRUE))
    /\ now' = now + Latency
    /\ response' = Some(PrimaryResponse(total, params'.offset, params'.embed))
    /\ i' = CUSTOM_FIELDS_PER_REQUEST
    /\ pc' = AfterPrimary(custom_field_ids, "get_backfill", "get_acc")
    /\ UNCHANGED <<error, result, endpoint, headers, sleeps, calls, custom_fields,
                   faults, custom_field_ids, pagination, additional_data, all_data,
                   total_results, pagination_info, streak>>
    /\ UNCHANGED tokenVars
    /\ UNCHANGED serverVars
    /\ UNCHANGED mainVars

\* client.py:216-222: the handler of the loop's try block, entered with the
\* retries counter r of this iteration.
Except(r) ==
    /\ retries' = r + 1
    /\ sleeps' = Append(sleeps, Backoff(retries'))
    /\ now' = now + Latency + Backoff(retries')
    /\ streak' = streak + 1
    /\ IF retries' = MAX_RETRIES
       THEN Return(all_data, pagination_info)
       ELSE /\ pc' = "get_acc"
            /\ UNCHANGED <<error, result>>

\* client.py:198-202, 216-222: a loop iteration whose primary request fails.
GetPageFails ==
    /\ pc = "get_loop"
    /\ Len(all_data) < total_results
    /\ faults < MaxFaults
    /\ faults' = faults + 1
    /\ params' = [params EXCEPT !.embed = Batch(custom_field_ids, 0)]
    /\ reqs' = Append(reqs, Request("page", endpoint, headers, params', None, now, FALSE))
    /\ Except(LoopRetries)
    /\ UNCHANGED <<endpoint, headers, calls, custom_fields, custom_field_ids,
                   pagination, response, additional_data, all_data, total_results,
                   pagination_info, i>>
    /\ UNCHANGED tokenVars
    /\ UNCHANGED serverVars
    /\ UNCHANGED mainVars

\* client.py:204-214: one backfill request inside the loop succeeds and is merged.
GetBackfillOk ==
    /\ pc = "get_backfill"
    /\ params' = [params EXCEPT !.embed = Batch(custom_field_ids, i)]
    /\ reqs' = Append(reqs, Request("page_backfill", endpoint, headers, params', None, now, TRUE))
    /\ now' = now + Latency
    /\ additional_data' = Some(BackfillResponse(total, params'.offset, params'.embed,
                                                order, anomaly))
    /\ response' = Some([response[1] EXCEPT
                            !.data = Merge(@, additional_data'[1].data)])
    /\ i' = i + CUSTOM_FIELDS_PER_REQUEST
    /\ pc' = AfterBackfill(custom_field_ids, i, "get_backfill", "get_acc")
    /\ UNCHANGED <<error, result, endpoint, headers, retries, sleeps, calls,
                   custom_fields, faults, custom_field_ids, pagination, all_data,
                   total_results, pagination_info, streak>>
    /\ UNCHANGED tokenVars
    /\ UNCHANGED serverVars
    /\ UNCHANGED mainVars

\* client.py:204-207, 216-222: a backfill request inside the loop fails.
GetBackfillFails ==
    /\ pc = "get_backfill"
    /\ faults < MaxFaults
    /\ faults' = faults + 1
    /\ params' = [params EXCEPT !.embed = Batch(custom_field_ids, i)]
    /\ reqs' = Append(reqs, Request("page_backfill", endpoint, headers, params', None, now, FALSE))
    /\ Except(retries)
    /\ UNCHANGED <<endpoint, headers, calls, custom_fields, custom_field_ids,
                   pagination, response, additional_data, all_data, total_results,
                   pagination_info, i>>
    /\ UNCHANGED tokenVars
    /\ UNCHANGED serverVars
    /\ UNCHANGED mainVars

\* client.py:224-243: the rows of the page held in response are appended, whether
\* or not the try block failed; then the offset advances or the loop breaks.
GetAccumulate ==
    /\ pc = "get_acc"
    /\ all_data' = all_data \o Rows(response[1].data)
    /\ pagination_info' = Some(response[1].pagination)
    /\ streak' = IF retries = 0 THEN 0 ELSE streak
    /\ IF pagination_info'[1].offset # None
       THEN /\ params' = [params EXCEPT !.offset = pagination_info'[1].offset]
            /\ pc' = "get_loop"
            /\ UNCHANGED <<error, result>>
       ELSE /\ params' = params
            /\ Return(all_data', pagination_info')
    /\ UNCHANGED <<now, endpoint, headers, retries, sleeps, reqs, calls, custom_fields,
                   faults, custom_field_ids, pagination, response, additional_data,
                   total_results, i>>
    /\ UNCHANGED tokenVars
    /\ UNCHANGED serverVars
    /\ UNCHANGED mainVars

-----------------------------------------------------------------------------
(* The client after construction (client.py:38): the first token was obtained. *)

InitClient ==
    /\ now = Latency
    /\ exchanges = 1
    /\ \E ttl \in TTLs :
          /\ res = [access_token |-> 1, expires_in |-> ttl]
          /\ token_expiry = ExpiryTime(now, ttl)
    /\ access_token = 1

InitFrame ==
    /\ pc = "idle"
    /\ error = None
    /\ result = None
    /\ endpoint = ""
    /\ params = SrParams(None)
    /\ headers = [token |-> 0, exp |-> 0]
    /\ retries = 0
    /\ sleeps = <<>>
    /\ reqs = <<>>
    /\ calls = 0
    /\ custom_field_ids = <<>>
    /\ pagination = None
    /\ response = None
    /\ additional_data = None
    /\ all_data = <<>>
    /\ total_results = 0
    /\ pagination_info = None
    /\ i = 0
    /\ streak = 0
    /\ faults = 0

\* The script main.py is not running.
InitNoMain ==
    /\ files = {}
    /\ mpc = "none"
    /\ runs = 0

NoAnomaly == [kind |-> "none", rec |-> 0]

\* _simple_request alone: no catalog, an empty collection.
InitReq ==
    /\ InitClient
    /\ InitFrame
    /\ InitNoMain
    /\ custom_fields = None
    /\ total = 0
    /\ order = "same"
    /\ anomaly = NoAnomaly

NextReq ==
    \/ \E ep \in SrEndpoints : Call_simple_request(ep, Some(0))
    \/ SrCheckAccessToken
    \/ SrAttemptOk
    \/ SrAttemptFails
    \/ Finish

SpecReq == InitReq /\ [][NextReq]_vars

-----------------------------------------------------------------------------
(* get() on a constructed client *)

\* The catalogs fetch_custom_field_ids may have built (client.py:105-129), and
\* <<>> for a client built with with_custom_fields = False.
Catalogs ==
    { None,
      Some([client |-> <<1>>]),
      Some([prospect |-> <<1, 2, 3>>]),
      Some([client |-> <<1, 2>>, prospect |-> <<2, 3>>]) }

\* Collection sizes: empty, one short page, full/full/short (the shape of
\* 100/100/50), one whose quarter exceeds a page, and one whose quarter exceeds
\* the first page plus MAX_RETRIES repeated pages.
LongTotal == TOTAL_DIVISOR * ((MAX_RETRIES + 1) * PageSize + 1)
Totals == { 0, 1, 2 * PageSize + 1, TOTAL_DIVISOR * (PageSize + 1), LongTotal }

TwoBatches == Some([client |-> <<1, 2>>, prospect |-> <<2, 3>>])

Anomalies == { NoAnomaly, [kind |-> "null", rec |-> 1], [kind |-> "stale", rec |-> 2] }

\* The resume cursors a caller may pass: none, or one the server handed out.
Cursors(T) == {None} \cup { Some(c) : c \in 2..Min(NumPages(T), MaxCursor) }

InitGet ==
    /\ InitClient
    /\ InitFrame
    /\ InitNoMain
    /\ custom_fields \in Catalogs
    /\ total \in Totals
    /\ order \in {"same", "reversed"}
    /\ anomaly \in Anomalies
    \* the long collection is explored with one catalog and one server behaviour
    /\ total = LongTotal =>
          /\ custom_fields = TwoBatches
          /\ order = "reversed"
          /\ anomaly = NoAnomaly
          /\ res.expires_in = 86400

NextGet ==
    \/ \E pag \in Cursors(total) : Call_get("individuals", pag) /\ UNCHANGED mainVars
    \/ GetCheckAccessToken
    \/ GetSetup
    \/ GetFirstOk
    \/ GetFirstFails
    \/ GetFirstBackfillOk
    \/ GetFirstBackfillFails
    \/ GetFirstAccumulate
    \/ GetLoopExit
    \/ GetPageOk
    \/ GetPageFails
    \/ GetBackfillOk
    \/ GetBackfillFails
    \/ GetAccumulate
    \/ Finish

SpecGet == InitGet /\ [][NextGet]_vars

-----------------------------------------------------------------------------
(* CustomFieldCatalog: fetch_custom_field_ids, client.py:105-129, called by  *)
(* the constructor (client.py:40-41) once the first token is held.  The    *)
(* server holds the custom-field definitions 1..total, in ascending id     *)
(* order, and serves params.limit of them from params.offset on.           *)

\* The entity types a definition is related to.
RelatedObjects(d) ==
    IF d % 4 = 1 THEN <<"client">>
    ELSE IF d % 4 = 2 THEN <<"client", "prospect">>
    ELSE IF d % 4 = 3 THEN <<>>
    ELSE <<"prospect", "contact">>

\* The JSON body of the custom-fields endpoint for this offset and limit.
DefsPage(T, off, limit) ==
    LET n == IF T > off THEN Min(limit, T - off) ELSE 0
    IN  [data |-> [j \in 1..n |->
                      [id |-> off + j, related_objects |-> RelatedObjects(off + j)]],
         pagination |-> [count |-> n]]

\* client.py:111, 115: the params of the sweep
FetchParams(off) ==
    [limit |-> CatalogLimit, order |-> "id", direction |-> "asc",
     offset |-> Some(off), embed |-> <<>>]

\* client.py:121-123: the id is appended to the list of the entity type, which
\* is created when the type is new
AppendId(cat, t, id) ==
    [k \in DOMAIN cat \cup {t} |->
        IF k = t THEN CatalogGet(cat, t) \o <<id>> ELSE cat[k]]

RECURSIVE ClassifyField(_, _, _)
\* client.py:120-123: the related objects of one field, from the n-th on
ClassifyField(cat, field, n) ==
    IF n > Len(field.related_objects) THEN cat
    ELSE ClassifyField(AppendId(cat, field.related_objects[n], field.id), field, n + 1)

RECURSIVE ClassifyPage(_, _, _)
\* client.py:119-123: the fields of one page, from the k-th on
ClassifyPage(cat, data, k) ==
    IF k > Len(data) THEN cat
    ELSE ClassifyPage(ClassifyField(cat, data[k], 1), data, k + 1)

\* A sweep that stops at a page that is not longer than the limit.
LastPageAtMost(count, limit) == count <= limit

\* client.py:127: the page is the last one
LastPage(count, limit) == count < limit

\* client.py:109-112: the empty catalog, the endpoint, the params, offset = 0
FetchInit ==
    /\ pc = "idle"
    /\ custom_fields = None
    /\ custom_fields' = Some(<<>>)
    /\ endpoint' = "custom-fields"
    /\ params' = FetchParams(0)
    /\ pc' = "fetch_call"
    /\ UNCHANGED <<now, error, result, headers, retries, sleeps, reqs, calls, faults>>
    /\ UNCHANGED tokenVars
    /\ UNCHANGED getVars
    /\ UNCHANGED serverVars
    /\ UNCHANGED mainVars

\* client.py:114-116: self._simple_request("get", endpoint, params=params): the
\* decorator runs first.  reqs and sleeps go on recording through the sweep.
FetchCall ==
    /\ pc = "fetch_call"
    /\ pc' = "sr_check"
    /\ calls' = calls + 1
    /\ retries' = 0
    /\ error' = None
    /\ result' = None
    /\ UNCHANGED <<now, endpoint, params, headers, sleeps, reqs, custom_fields, faults>>
    /\ UNCHANGED tokenVars
    /\ UNCHANGED getVars
    /\ UNCHANGED serverVars
    /\ UNCHANGED mainVars

\* client.py:116-129: _simple_request returned the page: its fields are
\* classified, then the sweep ends or the offset advances by the limit.
FetchAccumulate ==
    /\ pc = "returned"
    /\ response' = Some(DefsPage(total, result[1].offset[1], params.limit))
    /\ custom_fields' = Some(ClassifyPage(custom_fields[1], response'[1].data, 1))
    /\ pagination_info' = Some(response'[1].pagination)
    /\ IF LastPage(pagination_info'[1].count, params.limit)
       THEN /\ pc' = "built"
            /\ params' = params
       ELSE /\ pc' = "fetch_call"
            /\ params' = [params EXCEPT !.offset = Some(@[1] + params.limit)]
    /\ result' = None
    /\ UNCHANGED <<now, error, endpoint, headers, retries, sleeps, reqs, calls, faults,
                   custom_field_ids, pagination, additional_data, all_data,
                   total_results, i, streak>>
    /\ UNCHANGED tokenVars
    /\ UNCHANGED serverVars
    /\ UNCHANGED mainVars

\* The constructor has obtained the first token (client.py:38) and
\* with_custom_fields is true: the catalog is not built yet.
InitCatalog ==
    /\ InitClient
    /\ InitFrame
    /\ InitNoMain
    /\ custom_fields = None
    /\ total \in 0..(2 * CatalogLimit + 1)
    /\ order = "same"
    /\ anomaly = NoAnomaly

NextCatalog ==
    \/ FetchInit
    \/ FetchCall
    \/ SrCheckAccessToken
    \/ SrAttemptOk
    \/ SrAttemptFails
    \/ FetchAccumulate

SpecCatalog == InitCatalog /\ [][NextCatalog]_vars

-----------------------------------------------------------------------------
(* The rows of one page: client.py:224-235 applied to the custom-field data a *)
(* server may hold.  get() is in its loop, on a client whose catalog is one   *)
(* id: the first page is accumulated, the second page has just been received, *)
(* and its records carry any of the raw values and option lists below.        *)

\* The raw values of a custom-field entry: null, 0, and ids.
RowValues == {None, Some(0), Some(1), Some(2), Some(3)}

\* The option lists of a custom field (parameters.items), among them one with an
\* option of id 0 and one whose labels are sentinel labels.
RowItems ==
    { <<>>,
      << [id |-> 1, label |-> "A"], [id |-> 2, label |-> "B"] >>,
      << [id |-> 0, label |-> "Z"], [id |-> 1, label |-> "A"] >>,
      << [id |-> 1, label |-> "Inconnu"], [id |-> 2, label |-> "N/C"] >>,
      << [id |-> 2, label |-> "Aucun"], [id |-> 3, label |-> "C"] >>,
      << [id |-> 3, label |-> "C"] >> }

\* The catalog of the client: one field, related to 'client'.
RowsCatalog == Some([client |-> <<1>>])

\* The page the server sent, its j-th record holding the entry es[j] for the
\* field of the catalog.
WithEntries(page, es) ==
    [page EXCEPT !.data = [j \in 1..Len(@) |->
                              [@[j] EXCEPT !.custom_fields = Some(<<es[j]>>)]]]

\* The collection: its quarter exceeds one page, so that the loop is entered.
RowsTotal == TOTAL_DIVISOR * (PageSize + 1)

InitRows ==
    /\ InitNoMain
    /\ now = 3 * Latency
    /\ exchanges = 1
    /\ res = [access_token |-> 1, expires_in |-> 86400]
    /\ access_token = 1
    /\ token_expiry = ExpiryTime(Latency, res.expires_in)
    /\ custom_fields = RowsCatalog
    /\ total = RowsTotal
    /\ order = "same"
    /\ anomaly = NoAnomaly
    /\ pc = "get_acc"
    /\ error = None
    /\ result = None
    /\ endpoint = "individuals"
    /\ pagination = None
    /\ custom_field_ids = CustomFieldIds(custom_fields[1])
    /\ headers = [token |-> access_token, exp |-> token_expiry]
    /\ params = [GetParams(None, custom_field_ids) EXCEPT !.offset = NextCursor(total, 1)]
    /\ retries = LoopRetries
    /\ sleeps = <<>>
    /\ reqs = << Request("first", endpoint, headers, GetParams(None, custom_field_ids),
                         None, Latency, TRUE),
                 Request("page", endpoint, headers, params, None, 2 * Latency, TRUE) >>
    /\ calls = 1
    /\ faults = 0
    /\ additional_data = None
    /\ all_data = Rows(PrimaryResponse(total, None, custom_field_ids).data)
    /\ total_results = TotalResults(total)
    /\ pagination_info = None
    /\ i = CUSTOM_FIELDS_PER_REQUEST
    /\ streak = 0
    /\ \E es \in [1..Len(PageRecs(total, 2)) ->
                    [name : {1}, value : RowValues, items : RowItems]] :
          response = Some(WithEntries(
                         PrimaryResponse(total, params.offset, params.embed), es))

NextRows ==
    \/ GetAccumulate
    \/ GetLoopExit
    \/ Finish

SpecRows == InitRows /\ [][NextRows]_vars

-----------------------------------------------------------------------------
(* The script main.py.  A file name is the sequence of its characters. *)

\* The characters file names are made of, in code-point order.
Alphabet ==
    <<"*", "-", ".", "0", "1", "2", "3", "4", "5", "6", "7", "8", "9", "N",
      "a", "c", "d", "e", "i", "l", "n", "o", "p", "r", "s", "t", "u", "v">>

Code(ch) == CHOOSE k \in 1..Len(Alphabet) : Alphabet[k] = ch

\* main.py:12: the one pair of the mapper
EndpointName == <<"i", "n", "d", "i", "v", "i", "d", "u", "a", "l", "s">>
TypeName == <<"p", "r", "o", "s", "p", "e", "c", "t">>
Csv == <<".", "c", "s", "v">>

RECURSIVE DecimalText(_)
\* str(n) for a natural number n
DecimalText(n) ==
    IF n < 10 THEN <<Alphabet[Code("0") + n]>>
    ELSE DecimalText(n \div 10) \o <<Alphabet[Code("0") + (n % 10)]>>

\* str(cursor) inside the f-string of main.py:44
CursorText(cursor) ==
    IF cursor = None THEN <<"N", "o", "n", "e">> ELSE DecimalText(cursor[1])

RECURSIVE TextValue(_)
\* The number a decimal text denotes.
TextValue(text) ==
    IF text = <<>> THEN 0
    ELSE 10 * TextValue(SubSeq(text, 1, Len(text) - 1))
            + (Code(text[Len(text)]) - Code("0"))

\* The cursor the server reads from the text of an offset parameter.
TextCursor(text) == Some(TextValue(text))

\* main.py:22: existing_file = f'{endpoint}-{custom_fields}-*.csv'
ExistingFile == EndpointName \o <<"-">> \o TypeName \o <<"-", "*">> \o Csv

\* main.py:44: f'{endpoint}-{custom_fields}-{pagination}.csv'
OutputName(cursor) ==
    EndpointName \o <<"-">> \o TypeName \o <<"-">> \o CursorText(cursor) \o Csv

\* str.startswith
StartsWith(f, prefix) ==
    Len(f) >= Len(prefix) /\ SubSeq(f, 1, Len(prefix)) = prefix

\* main.py:23: the files whose name starts with existing_file
MatchingFiles(dir) == {f \in dir : StartsWith(f, ExistingFile)}

RECURSIVE LexLess(_, _)
\* Python's order on str: a < b
LexLess(a, b) ==
    IF b = <<>> THEN FALSE
    ELSE IF a = <<>> THEN TRUE
    ELSE IF a[1] # b[1] THEN Code(a[1]) < Code(b[1])
    ELSE LexLess(Tail(a), Tail(b))

\* main.py:26: sorted(matching_files)[-1]
LatestFile(S) == CHOOSE f \in S : \A g \in S : g = f \/ LexLess(g, f)

RECURSIVE LastField(_)
\* main.py:28: latest_file.split('-')[-1]
LastField(f) ==
    IF \E k \in 1..Len(f) : f[k] = "-"
    THEN LastField(Tail(f))
    ELSE f

RECURSIVE RemoveCsv(_)
\* main.py:28: .replace('.csv', '')
RemoveCsv(t) ==
    IF t = <<>> THEN <<>>
    ELSE IF StartsWith(t, Csv) THEN RemoveCsv(SubSeq(t, Len(Csv) + 1, Len(t)))
    ELSE <<t[1]>> \o RemoveCsv(Tail(t))

\* main.py:23-30: the pagination argument of this run
ScanPagination(dir) ==
    IF MatchingFiles(dir) # {}
    THEN TextCursor(RemoveCsv(LastField(LatestFile(MatchingFiles(dir)))))
    ELSE None

\* main.py:18-37: the scan of the working directory and the call of get()
MainScan ==
    /\ mpc = "scan"
    /\ Call_get("individuals", ScanPagination(files))
    /\ mpc' = "get"
    /\ UNCHANGED <<files, runs>>

\* main.py:38-44: get() returned; the rows are written to the file named after
\* the returned cursor, and the script ends.
MainWrite ==
    /\ mpc = "get"
    /\ pc = "returned"
    /\ files' = files \cup {OutputName(result[1].cursor)}
    /\ mpc' = "exited"
    /\ UNCHANGED runs
    /\ UNCHANGED <<now, pc, error, result, endpoint, params, headers, retries, sleeps,
                   reqs, calls, custom_fields, faults>>
    /\ UNCHANGED tokenVars
    /\ UNCHANGED getVars
    /\ UNCHANGED serverVars

\* main.py:32: get() raised; nothing catches the exception and the script ends
\* without writing a file.
MainCrash ==
    /\ mpc = "get"
    /\ pc = "raised"
    /\ mpc' = "exited"
    /\ UNCHANGED <<files, runs>>
    /\ UNCHANGED <<now, pc, error, result, endpoint, params, headers, retries, sleeps,
                   reqs, calls, custom_fields, faults>>
    /\ UNCHANGED tokenVars
    /\ UNCHANGED getVars
    /\ UNCHANGED serverVars

\* The catalog the constructor builds in the runs of the script (client.py:41).
MainCatalog == Some([client |-> <<1, 2>>, prospect |-> <<2, 3>>])

\* The script is started again in the same directory: main.py:6-10 constructs a
\* new client (client.py:38-41), whose first token exchange succeeds.
MainStart ==
    /\ mpc = "exited"
    /\ runs < MaxRuns
    /\ runs' = runs + 1
    /\ mpc' = "scan"
    /\ RequestNewTokenOk
    /\ custom_fields' = MainCatalog
    /\ calls' = 0
    /\ pc' = "idle"
    /\ error' = None
    /\ result' = None
    /\ retries' = 0
    /\ sleeps' = <<>>
    /\ reqs' = <<>>
    /\ custom_field_ids' = <<>>
    /\ pagination' = None
    /\ response' = None
    /\ additional_data' = None
    /\ all_data' = <<>>
    /\ total_results' = 0
    /\ pagination_info' = None
    /\ i' = 0
    /\ streak' = 0
    /\ UNCHANGED <<endpoint, params, headers, faults, files>>
    /\ UNCHANGED serverVars

\* A file that is in the directory before the first run: its name starts with
\* the text of existing_file, the "*" included.
StarFile == ExistingFile \o <<"-", "3">> \o Csv

InitMain ==
    /\ InitClient
    /\ InitFrame
    /\ custom_fields = MainCatalog
    /\ total \in {2 * PageSize + 1, TOTAL_DIVISOR * (PageSize + 1)}
    /\ order = "same"
    /\ anomaly = NoAnomaly
    /\ files \in {{}, {StarFile}}
    /\ mpc = "scan"
    /\ runs = 1

NextMain ==
    \/ MainScan
    \/ MainWrite
    \/ MainCrash
    \/ MainStart
    \/ GetCheckAccessToken
    \/ GetSetup
    \/ GetFirstOk
    \/ GetFirstFails
    \/ GetFirstBackfillOk
    \/ GetFirstBackfillFails
    \/ GetFirstAccumulate
    \/ GetLoopExit
    \/ GetPageOk
    \/ GetPageFails
    \/ GetBackfillOk
    \/ GetBackfillFails
    \/ GetAccumulate

SpecMain == InitMain /\ [][NextMain]_vars

-----------------------------------------------------------------------------
(* Claims about _simple_request and the token, checked under SpecReq *)

\* The decorator has just returned: the method body starts, nothing was sent yet.
JustChecked == pc = "sr_attempt" /\ reqs = <<>>

\* The first k requests of the running call failed.
FirstFailed(k) == Len(reqs) >= k /\ \A j \in 1..k : ~reqs[j].ok

\* C6: a call of _simple_request whose first k attempts fail (1 <= k <= 4) and
\* whose next attempt succeeds returns the response of that attempt after exactly
\* k + 1 attempts; it slept 2^1, ..., 2^k seconds, one sleep after each failure
\* and before the next attempt, and did not sleep after the success.
C6_BackoffThenSuccess ==
    \A k \in 1..(MAX_RETRIES - 1) :
        (FirstFailed(k) /\ Len(reqs) > k /\ reqs[k + 1].ok) =>
            /\ pc = "returned"
            /\ Len(reqs) = k + 1
            /\ result = Some([endpoint |-> endpoint, offset |-> params.offset])
            /\ sleeps = [j \in 1..k |-> 2 ^ j]
            /\ \A j \in 1..k : reqs[j + 1].at = reqs[j].at + Latency + 2 ^ j
            /\ now = reqs[k + 1].at + Latency

C6_Witness == pc = "returned" /\ sleeps = <<2, 4, 8, 16>>

\* C7: a call of _simple_request whose attempts all fail makes exactly 5 attempts
\* and then raises the exhausted-retries error, whose message names the endpoint.
C7_ExhaustedRetriesError ==
    FirstFailed(MAX_RETRIES) =>
        /\ pc = "raised"
        /\ Len(reqs) = MAX_RETRIES
        /\ error = Some([type |-> "Exception", names |-> {endpoint}])

\* C8: every resource request carries a token whose expiry is strictly later
\* than the time the request is sent.  Stated for tokens granted with a positive
\* lifetime, so that a violation shows a token that expired while it was held.
C8_TokenValidAtEveryRequest ==
    res.expires_in > 0 => \A k \in 1..Len(reqs) : reqs[k].exp > reqs[k].at

\* C9: when the held token has expiry <= now, _get_access_token sends exactly one
\* exchange POST and, when it returns, the token and the expiry are those of the
\* new grant; when expiry > now it sends none and leaves both unchanged.
C9_RefreshExactlyWhenExpired ==
    [][pc = "sr_check" =>
          IF token_expiry <= now
          THEN /\ exchanges' = exchanges + 1
               /\ pc' = "sr_attempt" =>
                     /\ access_token' # access_token
                     /\ access_token' = res'.access_token
                     /\ token_expiry' = now' + res'.expires_in
          ELSE /\ exchanges' = exchanges
               /\ access_token' = access_token
               /\ token_expiry' = token_expiry
               /\ pc' = "sr_attempt"]_vars

\* Two calls, one exchange after construction: one decorator refreshed the token,
\* the other did not.
C9_Witness == JustChecked /\ calls = 2 /\ exchanges = 2 /\ access_token = 2

\* C10 as claimed: whenever _get_access_token returns, the stored expiry is
\* strictly later than the time of return, for every server-reported ttl.
C10_ExpiryInFuture == JustChecked => token_expiry > now

\* C10 amended: whenever _get_access_token returns holding a token that was
\* granted with expires_in > 0, the stored expiry is strictly later than the time
\* of return.
C10_ExpiryInFutureForPositiveTtl ==
    (JustChecked /\ res.expires_in > 0) => token_expiry > now

C10_Witness == JustChecked /\ access_token > 1 /\ res.expires_in > 0

\* C11: a failed credential exchange is not retried: the decorator's call of
\* _get_access_token that raises sent exactly one POST, the error is the
\* RuntimeError of client.py:72, the method body did not run (no resource request
\* was sent), and the held token and its expiry are the ones held before.
C11_FailedExchangeNotRetried ==
    [][(pc \in {"sr_check", "get_check"} /\ pc' = "raised") =>
          /\ NeedsRefresh(now, token_expiry)
          /\ exchanges' = exchanges + 1
          /\ now' = now + Latency
          /\ error' = Some([type |-> "RuntimeError", names |-> {}])
          /\ access_token' = access_token
          /\ token_expiry' = token_expiry
          /\ reqs' = <<>>
          /\ result' = None]_vars

\* The second exchange of the client failed: the first token is still held.
C11_Witness ==
    /\ pc = "raised"
    /\ error = Some([type |-> "RuntimeError", names |-> {}])
    /\ exchanges = 2
    /\ access_token = 1
    /\ reqs = <<>>

-----------------------------------------------------------------------------
(* Claims about get(), checked under SpecGet *)

\* The running call of get() is over.
Ended == pc \in {"returned", "raised"}

\* No resource request failed and no token exchange failed.
Reliable == faults = 0 /\ (error = None \/ error[1].type # "RuntimeError")

\* How many of the rows carry the id r.
RowsOf(rows, r) == Cardinality({k \in 1..Len(rows) : rows[k].id = r})

\* C1: against a server that never fails, get() started without a cursor on a
\* client with a catalog returns exactly one row per record of the collection
\* and a null resume cursor.  Stated for the collection of the claim's example:
\* two full pages and a short one.
C1_WholeCollectionNullCursor ==
    (Ended /\ pagination = None /\ custom_fields # None /\ Reliable
        /\ total = 2 * PageSize + 1) =>
        /\ pc = "returned"
        /\ Len(result[1].rows) = total
        /\ \A r \in 1..total : RowsOf(result[1].rows, r) = 1
        /\ result[1].cursor = None

\* C2: when the attempts to fetch one page failed 5 times in a row the fetch has
\* stopped: it returned the accumulated rows and the last known offset, and no
\* further attempt follows.
C2_StopsAfterFiveFailures ==
    /\ streak <= MAX_RETRIES
    /\ streak = MAX_RETRIES =>
          /\ pc = "returned"
          /\ result = Some([rows |-> all_data, cursor |-> params.offset])

\* C3: when get() is called with a resume cursor c, the primary request of the
\* first page and every backfill request of the first page carry offset = c.
C3_ResumeOffsetOnFirstPage ==
    pagination # None =>
        \A k \in 1..Len(reqs) :
            reqs[k].kind \in {"first", "first_backfill"} => reqs[k].offset = pagination

C3_Witness ==
    /\ pagination # None
    /\ \E k \in 1..Len(reqs) : reqs[k].kind = "first" /\ reqs[k].offset = pagination
    /\ \E k \in 1..Len(reqs) :
          reqs[k].kind = "first_backfill" /\ reqs[k].offset = pagination

RECURSIVE Gathered(_, _, _)
\* The custom-field values the records from n on of a backfill response hold for
\* the primary record p, in the order of the response.
Gathered(p, additional, n) ==
    IF n > Len(additional) THEN <<>>
    ELSE (IF /\ additional[n].id = p.id
             /\ additional[n].created = p.created
             /\ additional[n].custom_fields # None
          THEN additional[n].custom_fields[1]
          ELSE <<>>) \o Gathered(p, additional, n + 1)

\* This step received a backfill response and merged it.
BackfillMerged ==
    /\ pc \in {"get_first_backfill", "get_backfill"}
    /\ Len(reqs') = Len(reqs) + 1
    /\ reqs'[Len(reqs')].ok

\* C5: a backfill merge appends, to every record of the primary page, exactly
\* the custom-field values of the backfill records with the same (id, created),
\* whatever the order of the backfill response; the values a record ends with
\* are its own.
C5_MergeByIdAndCreated ==
    [][BackfillMerged =>
          LET before == response[1].data
              after == response'[1].data
              add == additional_data'[1].data
          IN  /\ Len(after) = Len(before)
              /\ \A k \in 1..Len(before) :
                    /\ after[k].id = before[k].id
                    /\ after[k].created = before[k].created
                    /\ after[k].custom_fields =
                          Some(before[k].custom_fields[1] \o Gathered(before[k], add, 1))
                    /\ \A j \in 1..Len(after[k].custom_fields[1]) :
                          after[k].custom_fields[1][j].value = Some(after[k].id)]_vars

\* A reversed backfill response was merged onto a page of two records, and both
\* hold a value for every custom field.
C5_Witness ==
    /\ pc \in {"get_first_acc", "get_acc"}
    /\ additional_data # None
    /\ Len(response[1].data) = 2
    /\ Len(additional_data[1].data) = 2
    /\ additional_data[1].data[1].id = response[1].data[2].id
    /\ additional_data[1].data[2].id = response[1].data[1].id
    /\ Len(custom_field_ids) > CUSTOM_FIELDS_PER_REQUEST
    /\ \A k \in 1..2 :
          Len(response[1].data[k].custom_fields[1]) = Len(custom_field_ids)

\* C12: the catalog self.custom_fields is read-only once built: no step of any
\* call of get() changes the list of ids stored under any entity type.
C12_CatalogReadOnly == [][custom_fields' = custom_fields]_vars

\* C13: on a client built with with_custom_fields = False, a call of get() whose
\* requests all succeed returns a result, embeds no custom-field id in any request
\* and sends no backfill request.
C13_DisabledCustomFields ==
    (custom_fields = None /\ Ended /\ Reliable) =>
        /\ pc = "returned"
        /\ reqs # <<>>
        /\ \A k \in 1..Len(reqs) :
              /\ reqs[k].embed = <<>>
              /\ reqs[k].kind \in {"first", "page"}

\* C17: every resource request get() sends carries the 10-second timeout, the
\* primary and the backfill requests of the first page and of every later page.
C17_EveryRequestHasTimeout ==
    \A k \in 1..Len(reqs) : reqs[k].timeout = Some(TIMEOUT)

\* The index of the last primary request sent so far, 0 when there is none.
LastPrimary ==
    LET P == {k \in 1..Len(reqs) : reqs[k].kind \in {"first", "page"}}
    IN  IF P = {} THEN 0 ELSE CHOOSE k \in P : \A j \in P : j <= k

\* The ids a sequence holds.
Range(seq) == {seq[k] : k \in 1..Len(seq)}

\* C18: when all the requests of a page are done (none failed), they split the
\* list of relevant ids into consecutive batches of at most
\* CUSTOM_FIELDS_PER_REQUEST ids: the primary request embeds the first batch, the
\* j-th backfill request the batch after it, every id is embedded in exactly one
\* request of the page, and all carry the offset, limit, order and direction of
\* the primary request.  Holding for every page, the primary request of the
\* next page embeds the first batch again.
C18_BatchesPartitionIds ==
    (faults = 0 /\ pc \in {"get_first_acc", "get_acc"}) =>
        LET p == LastPrimary
            n == Len(reqs) - p + 1
            ids == custom_field_ids
        IN  /\ p > 0
            /\ \A j \in 0..(n - 1) :
                  /\ reqs[p + j].embed = Batch(ids, j * CUSTOM_FIELDS_PER_REQUEST)
                  /\ Len(reqs[p + j].embed) <= CUSTOM_FIELDS_PER_REQUEST
                  /\ (j > 0) => reqs[p + j].embed # <<>>
                  /\ (j > 0) => reqs[p + j].kind \in {"first_backfill", "page_backfill"}
                  /\ reqs[p + j].offset = reqs[p].offset
                  /\ reqs[p + j].limit = reqs[p].limit
                  /\ reqs[p + j].order = reqs[p].order
                  /\ reqs[p + j].direction = reqs[p].direction
            /\ n * CUSTOM_FIELDS_PER_REQUEST >= Len(ids)
            /\ \A id \in Range(ids) :
                  Cardinality({j \in 0..(n - 1) : id \in Range(reqs[p + j].embed)}) = 1

\* The backfill record item has the id and the creation time of the primary
\* record original.
SamePair(original, item) ==
    item.id = original.id /\ item.created = original.created

\* C19: when a backfill response holds a record whose (id, created) pair is that
\* of no record of the primary page, the merge raises nothing, a primary record
\* that no backfill record with custom fields pairs with keeps its list as it
\* was (the unmatched record adds nothing to it, even when the ids agree), and
\* every other record of the response is merged onto its primary record.
C19_UnmatchedBackfillIgnored ==
    [][BackfillMerged =>
          LET before == response[1].data
              after == response'[1].data
              add == additional_data'[1].data
              Unmatched(n) == \A k \in 1..Len(before) : ~SamePair(before[k], add[n])
          IN  (\E n \in 1..Len(add) : Unmatched(n)) =>
                  /\ pc' # "raised"
                  /\ error' = None
                  /\ Len(after) = Len(before)
                  /\ \A k \in 1..Len(before) :
                        LET M == {n \in 1..Len(add) :
                                    /\ SamePair(before[k], add[n])
                                    /\ add[n].custom_fields # None}
                        IN  IF M = {} THEN after[k] = before[k]
                            ELSE \E n \in M :
                                    after[k] = [before[k] EXCEPT !.custom_fields =
                                        Some(@[1] \o add[n].custom_fields[1])]]_vars

\* A backfill response whose first record pairs with no primary record was
\* merged: the record after it reached its primary record, and the primary
\* record with the id of the unmatched one holds the first batch only.
C19_Witness ==
    /\ pc \in {"get_first_acc", "get_acc"}
    /\ additional_data # None
    /\ Len(custom_field_ids) > CUSTOM_FIELDS_PER_REQUEST
    /\ LET data == response[1].data
           add == additional_data[1].data
       IN  /\ Len(add) = 2
           /\ \A k \in 1..Len(data) : ~SamePair(data[k], add[1])
           /\ \E k \in 1..Len(data) :
                 /\ data[k].id = add[1].id
                 /\ Len(data[k].custom_fields[1]) = CUSTOM_FIELDS_PER_REQUEST
           /\ \E k \in 1..Len(data) :
                 /\ SamePair(data[k], add[2])
                 /\ Len(data[k].custom_fields[1]) = Len(custom_field_ids)

\* C20: a failed page attempt leaves the accumulated rows unchanged: the step of
\* a failed primary or backfill request of the loop does not change all_data, and
\* no record is among the accumulated rows twice.
C20_FailedAttemptKeepsRows ==
    /\ \A r \in 1..total : RowsOf(all_data, r) <= 1
    /\ Len(all_data) <= total

-----------------------------------------------------------------------------
(* Claims about the rows of get(), checked under SpecRows *)

\* The rows get() returned for the records of the page held in response: the
\* last rows of the result.
PageRow(k) ==
    result[1].rows[Len(result[1].rows) - Len(response[1].data) + k]

\* The entries of the k-th record of the page held in response.
PageEntries(k) == response[1].data[k].custom_fields[1]

\* The raw value of the entry is the id of one of its options.
HasOption(e) ==
    e.value # None /\ \E o \in 1..Len(e.items) : e.items[o].id = e.value[1]

\* C14: in the rows get() returns, an entry whose raw value (other than 0) is
\* the id of one of the field's options yields a column named after the field
\* that holds the label of such an option, and an entry whose raw value is 0
\* yields no column value, whatever the options of the field.
C14_LabelOrAbsentForZero ==
    pc = "returned" =>
        \A k \in 1..Len(response[1].data) :
            \A j \in 1..Len(PageEntries(k)) :
                LET e == PageEntries(k)[j]
                    cols == PageRow(k).columns
                IN  /\ (HasOption(e) /\ e.value # Some(0)) =>
                          /\ e.name \in DOMAIN cols
                          /\ \E o \in 1..Len(e.items) :
                                /\ e.items[o].id = e.value[1]
                                /\ cols[e.name] = e.items[o].label
                    /\ e.value = Some(0) => e.name \notin DOMAIN cols

\* helpers.py:61: the labels that stand for no value
Sentinels == {"Inconnu", "N/C", "Aucun"}

\* C15: in the rows get() returns, an entry whose raw value is neither null nor
\* 0 and is the id of no option of the field yields the raw id as column value,
\* and an entry whose option label is a sentinel label yields no column value.
C15_RawIdOrNullForSentinel ==
    pc = "returned" =>
        \A k \in 1..Len(response[1].data) :
            \A j \in 1..Len(PageEntries(k)) :
                LET e == PageEntries(k)[j]
                    cols == PageRow(k).columns
                IN  /\ (e.value \notin {None, Some(0)} /\ ~HasOption(e)) =>
                          /\ e.name \in DOMAIN cols
                          /\ cols[e.name] = e.value[1]
                    /\ (HasOption(e) /\ e.value # Some(0) /\
                            \E o \in 1..Len(e.items) :
                                /\ e.items[o].id = e.value[1]
                                /\ e.items[o].label \in Sentinels) =>
                          e.name \notin DOMAIN cols

-----------------------------------------------------------------------------
(* Claims about fetch_custom_field_ids, checked under SpecCatalog *)

\* How many of the requests before the k-th were answered.
AnsweredBefore(k) == Cardinality({j \in 1..(k - 1) : reqs[j].ok})

\* The count the server reports for the page a request asks for.
ReportedCount(rq) == DefsPage(total, rq.offset[1], rq.limit).pagination.count

\* The definitions the answered requests returned.
Returned ==
    {d \in 1..total : \E k \in 1..Len(reqs) :
        /\ reqs[k].ok
        /\ d > reqs[k].offset[1]
        /\ d <= reqs[k].offset[1] + reqs[k].limit}

\* C16: the sweep asks for the offsets 0, CatalogLimit, 2 * CatalogLimit, ...
\* with page size CatalogLimit, one page after the other (a failed attempt is
\* repeated at the same offset); it ends right after the first answered page
\* whose reported count is less than the page size, and sends no request after
\* it; then, for every definition d of a returned page and every entity type t
\* of its related objects, the id of d is in the catalog list of t, the lists
\* are in ascending order and hold nothing else.
C16_SweepUntilShortPage ==
    /\ \A k \in 1..Len(reqs) :
          /\ reqs[k].endpoint = "custom-fields"
          /\ reqs[k].limit = CatalogLimit
          /\ reqs[k].offset = Some(CatalogLimit * AnsweredBefore(k))
          /\ (reqs[k].ok /\ ReportedCount(reqs[k]) < CatalogLimit) => k = Len(reqs)
    /\ pc = "built" =>
          /\ reqs # <<>>
          /\ reqs[Len(reqs)].ok
          /\ ReportedCount(reqs[Len(reqs)]) < CatalogLimit
          /\ Returned = 1..total
          /\ \A d \in Returned : \A n \in 1..Len(RelatedObjects(d)) :
                LET t == RelatedObjects(d)[n]
                IN  /\ t \in DOMAIN custom_fields[1]
                    /\ \E m \in 1..Len(custom_fields[1][t]) : custom_fields[1][t][m] = d
          /\ \A t \in DOMAIN custom_fields[1] :
                LET ids == custom_fields[1][t]
                IN  /\ ids # <<>>
                    /\ \A m \in 1..(Len(ids) - 1) : ids[m] < ids[m + 1]
                    /\ \A m \in 1..Len(ids) :
                          /\ ids[m] \in Returned
                          /\ \E n \in 1..Len(RelatedObjects(ids[m])) :
                                RelatedObjects(ids[m])[n] = t
    /\ (reqs # <<>> /\ reqs[Len(reqs)].ok /\ ReportedCount(reqs[Len(reqs)]) < CatalogLimit)
          => pc \in {"returned", "built"}

\* A sweep of three pages, the last one short, with a failed attempt on the way:
\* the catalog is built.
C16_Witness ==
    /\ pc = "built"
    /\ total = 2 * CatalogLimit + 1
    /\ AnsweredBefore(Len(reqs) + 1) = 3
    /\ Len(reqs) > 3
    /\ Len(custom_fields[1]["client"]) > 1

-----------------------------------------------------------------------------
(* Claims about main.py, checked under SpecMain *)

\* The output files in the directory whose name carries a cursor the server
\* hands out.
CursorFiles == {f \in files : \E c \in 2..NumPages(total) : f = OutputName(Some(c))}

\* The offset in the name of an output file.
FileOffset(f) == CHOOSE c \in 2..NumPages(total) : f = OutputName(Some(c))

\* C4: in the second run of the script, started in a directory that held no
\* file before the first run, when the first run wrote an output file
\* <endpoint>-<entityType>-<offset>.csv the call of get() is passed the offset of
\* the lexicographically latest such file as resume cursor.  Stated for runs
\* in which no request failed.
C4_SecondRunResumes ==
    (runs = 2 /\ mpc = "get" /\ faults = 0 /\ StarFile \notin files /\ CursorFiles # {}) =>
        pagination = Some(FileOffset(LatestFile(CursorFiles)))

====
